---- MODULE Spec2Model ----
(***************************************************************************)
(* Model of src/train.py: the k-fold training orchestration (train) and    *)
(* the command-line driver (main).  Floating-point metrics are integers    *)
(* (accuracies in percent), means are exact reduced fractions <<n, d>>.    *)
(* Calls into external collaborators (wandb, SummaryWriter,                *)
(* save_checkpoint, perform_anova) are recorded in call logs.              *)
(***************************************************************************)
EXTENDS Integers, Sequences, FiniteSets, TLC

\* ------------------------------------------------------------------ bounds
MaxEpochs == 4
MaxPatience == 2
MaxFolds == 2
MaxFoldEpochs == 2
PlateauEpochs == 6

\* ------------------------------------------------- program constants
\* main(): the fixed list of supported architectures.
all_models == <<"efficientnet", "resnet50", "mobilenetv3", "densenet121", "vit", "convnext", "regnet">>

\* ReduceLROnPlateau(optimizer, mode='min', factor=0.5, patience=3)
SchedulerPatience == 3
SchedulerFactorDen == 2

\* optimizer learning rate at fold start (the --lr value), in units in which
\* repeated halving stays integral.
InitialLr == 1024

\* ------------------------------------------------ exact arithmetic helpers
RECURSIVE GCD(_, _)
GCD(a, b) == IF b = 0 THEN a ELSE GCD(b, a % b)

Rat(n, d) == LET g == GCD(n, d) IN <<n \div g, d \div g>>

RatAdd(a, b) == Rat(a[1] * b[2] + b[1] * a[2], a[2] * b[2])

RECURSIVE SumSeq(_)
SumSeq(s) == IF s = <<>> THEN 0 ELSE Head(s) + SumSeq(Tail(s))

RECURSIVE SumRat(_)
SumRat(s) == IF s = <<>> THEN <<0, 1>> ELSE RatAdd(Head(s), SumRat(Tail(s)))

\* np.mean of an empty list is nan
NaN == <<0, 0>>

\* np.mean over a list of numbers
Mean(s) == IF s = <<>> THEN NaN ELSE Rat(SumSeq(s), Len(s))

\* np.mean over a list of np.mean results
MeanRat(s) ==
    IF s = <<>> \/ \E i \in 1..Len(s) : s[i] = NaN THEN NaN
    ELSE LET t == SumRat(s) IN Rat(t[1], t[2] * Len(s))

\* -------------------------------------------------------- environments
\* What validate() can report on a data set: accuracies, losses and
\* (precision, recall, f1) triples; what train_one_epoch() can report; the
\* models whose validation accuracy does not vary.
GeneralEnv == [accs |-> {0, 70, 72}, losses |-> {1}, prf |-> {<<1, 1, 1>>}, trn |-> {<<1, 50>>}, steady |-> {}]
FoldsEnv == [accs |-> {0, 70}, losses |-> {1}, prf |-> {<<1, 1, 1>>}, trn |-> {<<1, 50>>}, steady |-> {}]
MetricsEnv == [accs |-> {70, 72}, losses |-> {1}, prf |-> {<<0, 1, 0>>, <<1, 1, 1>>}, trn |-> {<<1, 50>>}, steady |-> {}]
ScenarioEnv == [accs |-> {69, 70, 71, 72}, losses |-> {1}, prf |-> {<<1, 1, 1>>}, trn |-> {<<1, 50>>}, steady |-> {}]
PlateauEnv == [accs |-> {70, 72}, losses |-> {1, 2}, prf |-> {<<1, 1, 1>>}, trn |-> {<<1, 50>>}, steady |-> {}]
CarryEnv == [accs |-> {70}, losses |-> {1, 2}, prf |-> {<<1, 1, 1>>}, trn |-> {<<1, 50>>}, steady |-> {}]
AllEnv ==
    [accs |-> {0, 70}, losses |-> {1}, prf |-> {<<1, 1, 1>>}, trn |-> {<<1, 50>>},
     steady |-> {"resnet50", "mobilenetv3", "densenet121", "vit", "convnext"}]

\* The accuracies validate() can report for a model: one value for the
\* models the environment holds steady.
ValAccs(env, m) == IF m \in env.steady THEN {70} ELSE env.accs

\* argparse: --epochs and --patience are unconstrained ints.
EpochValues == (-1)..MaxEpochs
PatienceValues == (-1)..MaxPatience

\* Run configurations: the parsed command line, the number of folds the
\* dataset provider yields and the environment.
\* One fold, every epoch budget and patience.
GeneralConfigs ==
    [all : {FALSE}, model : {"efficientnet"}, epochs : EpochValues, patience : PatienceValues,
     no_wandb : BOOLEAN, folds : {1}, env : {GeneralEnv}]

\* Several folds, shorter epoch budgets.
FoldsConfigs ==
    [all : {FALSE}, model : {"densenet121"}, epochs : 0..MaxFoldEpochs, patience : PatienceValues,
     no_wandb : BOOLEAN, folds : 2..MaxFolds, env : {FoldsEnv}]

\* Two folds whose precision, recall and f1 vary.
MetricsConfigs ==
    [all : {FALSE}, model : {"resnet50"}, epochs : 1..MaxEpochs, patience : {1},
     no_wandb : BOOLEAN, folds : {2}, env : {MetricsEnv}]

\* The end-to-end scenario: epochs=5, patience=2, accuracies 69..72.
ScenarioConfigs ==
    [all : {FALSE}, model : {"vit"}, epochs : {5}, patience : {2},
     no_wandb : BOOLEAN, folds : {1}, env : {ScenarioEnv}]

\* Folds long enough for the plateau scheduler to act, with and without
\* early stopping.
PlateauConfigs ==
    [all : {FALSE}, model : {"regnet"}, epochs : {PlateauEpochs}, patience : {2, PlateauEpochs},
     no_wandb : BOOLEAN, folds : {1}, env : {PlateauEnv}]

\* Two folds, the first of which ends with a halved learning rate and the
\* stopped flag set.
CarryConfigs ==
    [all : {FALSE}, model : {"convnext"}, epochs : {PlateauEpochs - 1},
     patience : {PlateauEpochs - 2}, no_wandb : BOOLEAN, folds : {2}, env : {CarryEnv}]

\* "Train all": the seven architectures.
AllConfigs ==
    [all : {TRUE}, model : {"efficientnet"}, epochs : {0, 1, 2}, patience : {1},
     no_wandb : BOOLEAN, folds : {1, 2}, env : {AllEnv}]

Configs ==
    GeneralConfigs \cup FoldsConfigs \cup MetricsConfigs \cup ScenarioConfigs
        \cup PlateauConfigs \cup CarryConfigs \cup AllConfigs

\* ------------------------------------------------------------------ state
VARIABLES
    args,                    \* parsed command line (+ folds, env)
    mpc, mi,                 \* main(): position, index into all_models
    results, accuracies,     \* main(): per-model summaries and histories
    precisions, recalls,
    anova_calls,             \* arguments of each perform_anova call
    train_calls,             \* model names train() was called with
    tpc,                     \* train(): position
    model_name, use_wandb,   \* train(): parameters
    fold, fold_results,
    avg_val_f1_list, avg_val_recall_list, avg_val_precision_list,
    best_val_acc, epochs_no_improve, early_stop,
    epoch, range_pos,        \* loop variable (<<>> while unbound), iterator
    val_acc,                 \* last validate() accuracy (<<>> while unbound)
    hist,                    \* the fold's history lists
    lr, scheduler,           \* optimizer lr, ReduceLROnPlateau state
    saves,                   \* save_checkpoint calls: path, epoch, val_acc
    wandb,                   \* wandb calls, in order
    writer,                  \* SummaryWriter calls, in order
    trace,                   \* the run's steps, in program order
    ret                      \* value returned by the last train() call

mainvars == <<mpc, mi, results, accuracies, precisions, recalls, anova_calls, train_calls>>
foldvars == <<best_val_acc, epochs_no_improve, early_stop, epoch, range_pos, val_acc, hist, lr, scheduler>>
aggvars == <<fold_results, avg_val_f1_list, avg_val_recall_list, avg_val_precision_list>>
trainvars == <<tpc, model_name, use_wandb, fold>>
sinkvars == <<saves, wandb, writer, trace>>
vars == <<args, mainvars, trainvars, aggvars, foldvars, sinkvars, ret>>

EmptyHist ==
    [train_losses |-> <<>>, val_losses |-> <<>>, train_accs |-> <<>>, val_accs |-> <<>>,
     val_f1s |-> <<>>, val_precisions |-> <<>>, val_recalls |-> <<>>]

\* no train() call has returned yet
NoReturn ==
    [fold_results |-> <<>>, avg_val_acc |-> NaN, avg_val_f1 |-> NaN, avg_val_recall |-> NaN,
     avg_val_precision |-> NaN]

Init ==
    /\ args \in Configs
    /\ mpc = "start"
    /\ mi = 1
    /\ results = <<>>
    /\ accuracies = <<>>
    /\ precisions = <<>>
    /\ recalls = <<>>
    /\ anova_calls = <<>>
    /\ train_calls = <<>>
    /\ tpc = "idle"
    /\ model_name = ""
    /\ use_wandb = FALSE
    /\ fold = 0
    /\ fold_results = <<>>
    /\ avg_val_f1_list = <<>>
    /\ avg_val_recall_list = <<>>
    /\ avg_val_precision_list = <<>>
    /\ best_val_acc = 0
    /\ epochs_no_improve = 0
    /\ early_stop = FALSE
    /\ epoch = <<>>
    /\ range_pos = 0
    /\ val_acc = <<>>
    /\ hist = EmptyHist
    /\ lr = InitialLr
    /\ scheduler = [best |-> <<>>, num_bad_epochs |-> 0]
    /\ saves = <<>>
    /\ wandb = <<>>
    /\ writer = <<>>
    /\ trace = <<>>
    /\ ret = NoReturn

\* ------------------------------------------------- fragments of train()
\* a tie taken for an improvement
ImprovedOrTie(va, best) == va >= best

\* any change taken for an improvement
ImprovedOnChange(va, best) == va # best

\* line 169: if val_acc > best_val_acc
Improved(va, best) == va > best

\* the counter not reset on an improvement
NextNoImproveKept(improved, n) == IF improved THEN n ELSE n + 1

\* lines 179-181: epochs_no_improve = 0, else epochs_no_improve += 1
NextNoImprove(improved, n) == IF improved THEN 0 ELSE n + 1

\* the stop one epoch late
ShouldStopLate(n, patience) == n > patience

\* line 185: if epochs_no_improve >= patience
ShouldStop(n, patience) == n >= patience

\* the scheduler stepped with the accuracy's shortfall instead of the loss
SchedulerMetricAcc(vl, va) == 100 - va

\* line 146: scheduler.step(val_loss)
SchedulerMetric(vl, va) == vl

\* the last epoch's value instead of the mean over the history
FoldMetricLast(list) == IF list = <<>> THEN NaN ELSE Rat(list[Len(list)], 1)

\* lines 194-199: np.mean over one of the fold's metric histories
FoldMetricAvg(list) == Mean(list)

\* line 221: np.mean([result["best_val_acc"] for result in fold_results])
RunAvgAcc(fr) == Mean([i \in 1..Len(fr) |-> fr[i].best_val_acc])

\* lines 172, 215: f"models/{run_name}_fold{fold + 1}_{kind}.pth"; the run
\* name is the model name and the start-of-run timestamp, fixed per call.
CheckpointPath(name, f, kind) == <<name, f + 1, kind>>

\* ReduceLROnPlateau (mode='min', threshold=1e-4 relative): is_better
IsBetter(a, best) == best = <<>> \/ a * 10000 < best[1] * 9999

\* ReduceLROnPlateau.step(metric) with cooldown=0 and min_lr=0: count the bad
\* epochs and reduce the lr by the factor once they exceed the patience.
SchedulerStep(s, rate, metric) ==
    LET better == IsBetter(metric, s.best)
        nb == IF better THEN 0 ELSE s.num_bad_epochs + 1
        reduce == nb > SchedulerPatience
    IN [scheduler |-> [best |-> IF better THEN <<metric>> ELSE s.best,
                       num_bad_epochs |-> IF reduce THEN 0 ELSE nb],
        lr |-> IF reduce THEN rate \div SchedulerFactorDen ELSE rate]

\* utils.log_metrics_to_wandb(..., use_wandb): one wandb.log iff enabled
LogMetricsToWandb(w, rec, enabled) ==
    IF enabled THEN Append(w, [op |-> "log", kind |-> "epoch", data |-> rec]) ELSE w

\* utils.log_metrics_to_tensorboard(writer, ...): the epoch's scalars
LogMetricsToTensorboard(wr, rec) == Append(wr, [op |-> "scalars", kind |-> "epoch", data |-> rec])

\* one step of the run: what was done, for which architecture, fold index
\* and epoch index (-1 where the step belongs to no fold or epoch)
Event(ev, m, f, e) == [ev |-> ev, model |-> m, fold |-> f, epoch |-> e]

\* lines 141-187: the steps of one evaluated epoch, in statement order
EpochCalls(m, f, e, improved) ==
    <<Event("train_one_epoch", m, f, e), Event("validate", m, f, e),
      Event("scheduler_step", m, f, e), Event("history_append", m, f, e),
      Event("log_metrics", m, f, e)>>
    \o (IF improved THEN <<Event("save_best", m, f, e)>> ELSE <<>>)
    \o <<Event("early_stop_check", m, f, e)>>

LoggedLrStale(before, after) == before

\* line 158: optimizer.param_groups[0]['lr'], read after scheduler.step
LoggedLr(before, after) == after

BestCheckpointOneBased(path, e, va) == [path |-> path, epoch |-> e + 1, val_acc |-> va]

\* line 176: save_checkpoint(model, optimizer, epoch, val_acc, checkpoint_path)
BestCheckpoint(path, e, va) == [path |-> path, epoch |-> e, val_acc |-> va]

RangeHasNextInclusive(pos, n) == pos <= n

\* line 133: range(epochs) yields another index
RangeHasNext(pos, n) == pos < n

FoldFreshKeepsCounter(prev) ==
    [best_val_acc |-> 0, epochs_no_improve |-> prev.epochs_no_improve,
     early_stop |-> prev.early_stop]

\* lines 121-124: the early-stopping state a fold starts with; prev is the
\* state the previous fold left behind
FoldFresh(prev) == [best_val_acc |-> 0, epochs_no_improve |-> 0, early_stop |-> FALSE]

\* ------------------------------------------------------- train(): steps
\* lines 54-98: a fresh frame, the telemetry backend, the result lists
TrainPrologue(m, uw, w0) ==
    /\ model_name' = m
    /\ use_wandb' = uw
    /\ train_calls' = Append(train_calls, m)
    /\ wandb' = IF uw THEN Append(w0, [op |-> "init", name |-> m, by |-> "train"]) ELSE w0
    /\ writer' = IF uw THEN writer ELSE Append(writer, [op |-> "open", name |-> m])
    /\ fold' = 0
    /\ fold_results' = <<>>
    /\ avg_val_f1_list' = <<>>
    /\ avg_val_recall_list' = <<>>
    /\ avg_val_precision_list' = <<>>
    /\ epoch' = <<>>
    /\ val_acc' = <<>>
    /\ best_val_acc' = 0
    /\ epochs_no_improve' = 0
    /\ early_stop' = FALSE
    /\ range_pos' = 0
    /\ hist' = EmptyHist
    /\ lr' = InitialLr
    /\ scheduler' = [best |-> <<>>, num_bad_epochs |-> 0]
    /\ tpc' = "folds"
    /\ trace' = Append(trace, Event("train", m, -1, -1))
    /\ UNCHANGED <<saves, ret>>

\* lines 100-132: the next fold; new model, optimizer and scheduler, reset
\* of the early-stopping state and of the histories.  fold is the index of
\* the fold being processed.
FoldStart ==
    /\ tpc = "folds"
    /\ fold < args.folds
    /\ wandb' = IF use_wandb THEN Append(wandb, [op |-> "watch", fold |-> fold]) ELSE wandb
    /\ writer' = IF use_wandb THEN writer ELSE Append(writer, [op |-> "add_graph", fold |-> fold])
    /\ lr' = InitialLr
    /\ scheduler' = [best |-> <<>>, num_bad_epochs |-> 0]
    /\ LET fresh == FoldFresh([best_val_acc |-> best_val_acc,
                                 epochs_no_improve |-> epochs_no_improve,
                                 early_stop |-> early_stop])
       IN /\ best_val_acc' = fresh.best_val_acc
          /\ epochs_no_improve' = fresh.epochs_no_improve
          /\ early_stop' = fresh.early_stop
    /\ hist' = EmptyHist
    /\ range_pos' = 0
    /\ trace' = Append(trace, Event("fold_begin", model_name, fold, -1))
    /\ tpc' = "epochs"
    /\ UNCHANGED <<args, mainvars, model_name, use_wandb, fold, aggvars, epoch, val_acc, saves, ret>>

\* lines 133-187: one iteration of the epoch loop that is not cut by break
EpochStep ==
    /\ tpc = "epochs"
    /\ RangeHasNext(range_pos, args.epochs)
    /\ ~early_stop
    /\ \E tr \in args.env.trn, vl \in args.env.losses, va \in ValAccs(args.env, model_name), m \in args.env.prf :
         LET st == SchedulerStep(scheduler, lr, SchedulerMetric(vl, va))
             rec == [fold |-> fold, train_loss |-> tr[1], train_acc |-> tr[2],
                     val_loss |-> vl, val_acc |-> va, val_precision |-> m[1],
                     val_recall |-> m[2], val_f1 |-> m[3], lr |-> LoggedLr(lr, st.lr),
                     epoch |-> range_pos]
             improved == Improved(va, best_val_acc)
             path == CheckpointPath(model_name, fold, "best")
             n == NextNoImprove(improved, epochs_no_improve)
             logged == LogMetricsToWandb(wandb, rec, use_wandb)
         IN /\ epoch' = <<range_pos>>
            /\ range_pos' = range_pos + 1
            /\ val_acc' = <<va>>
            /\ scheduler' = st.scheduler
            /\ lr' = st.lr
            /\ hist' = [train_losses |-> Append(hist.train_losses, tr[1]),
                        val_losses |-> Append(hist.val_losses, vl),
                        train_accs |-> Append(hist.train_accs, tr[2]),
                        val_accs |-> Append(hist.val_accs, va),
                        val_f1s |-> Append(hist.val_f1s, m[3]),
                        val_precisions |-> Append(hist.val_precisions, m[1]),
                        val_recalls |-> Append(hist.val_recalls, m[2])]
            /\ writer' = IF use_wandb THEN writer ELSE LogMetricsToTensorboard(writer, rec)
            /\ best_val_acc' = IF improved THEN va ELSE best_val_acc
            /\ saves' = IF improved
                        THEN Append(saves, BestCheckpoint(path, range_pos, va))
                        ELSE saves
            /\ wandb' = IF improved /\ use_wandb
                        THEN Append(logged, [op |-> "save", path |-> path])
                        ELSE logged
            /\ trace' = trace \o EpochCalls(model_name, fold, range_pos, improved)
            /\ epochs_no_improve' = n
            /\ early_stop' = IF ShouldStop(n, args.patience) THEN TRUE ELSE early_stop
    /\ UNCHANGED <<args, mainvars, trainvars, aggvars, ret>>

\* lines 133-136: the loop assigns the next epoch index, then breaks
EpochBreak ==
    /\ tpc = "epochs"
    /\ RangeHasNext(range_pos, args.epochs)
    /\ early_stop
    /\ epoch' = <<range_pos>>
    /\ range_pos' = range_pos + 1
    /\ tpc' = "fold_end"
    /\ UNCHANGED <<args, mainvars, model_name, use_wandb, fold, aggvars, best_val_acc,
                   epochs_no_improve, early_stop, val_acc, hist, lr, scheduler, sinkvars, ret>>

\* line 133: range(epochs) is exhausted
EpochsExhausted ==
    /\ tpc = "epochs"
    /\ ~RangeHasNext(range_pos, args.epochs)
    /\ tpc' = "fold_end"
    /\ UNCHANGED <<args, mainvars, model_name, use_wandb, fold, aggvars, foldvars, sinkvars, ret>>

\* lines 194-212: the fold's averages and its entry in fold_results
FoldSummary ==
    /\ avg_val_f1_list' = Append(avg_val_f1_list, FoldMetricAvg(hist.val_f1s))
    /\ avg_val_recall_list' = Append(avg_val_recall_list, FoldMetricAvg(hist.val_recalls))
    /\ avg_val_precision_list' = Append(avg_val_precision_list, FoldMetricAvg(hist.val_precisions))
    /\ fold_results' = Append(fold_results,
            [fold |-> fold + 1, best_val_acc |-> best_val_acc,
             train_losses |-> hist.train_losses, val_losses |-> hist.val_losses,
             train_accs |-> hist.train_accs, val_accs |-> hist.val_accs,
             val_f1s |-> hist.val_f1s, val_precisions |-> hist.val_precisions,
             val_recalls |-> hist.val_recalls])

\* lines 189-218: fold summary and the "final" checkpoint, which saves the
\* loop variable epoch and the last val_acc
FoldEnd ==
    /\ tpc = "fold_end"
    /\ epoch # <<>>
    /\ val_acc # <<>>
    /\ FoldSummary
    /\ LET path == CheckpointPath(model_name, fold, "final")
       IN /\ saves' = Append(saves, [path |-> path, epoch |-> epoch[1], val_acc |-> val_acc[1]])
          /\ wandb' = IF use_wandb THEN Append(wandb, [op |-> "save", path |-> path]) ELSE wandb
    /\ trace' = trace \o <<Event("fold_result", model_name, fold, -1),
                            Event("save_final", model_name, fold, epoch[1])>>
    /\ fold' = fold + 1
    /\ tpc' = "folds"
    /\ UNCHANGED <<args, mainvars, model_name, use_wandb, foldvars, writer, ret>>

\* line 216 with the epoch loop never entered: epoch and val_acc are unbound
\* names, their evaluation raises NameError and the process ends
FoldEndNameError ==
    /\ tpc = "fold_end"
    /\ (epoch = <<>> \/ val_acc = <<>>)
    /\ FoldSummary
    /\ tpc' = "crashed"
    /\ mpc' = "crashed"
    /\ UNCHANGED <<args, mi, results, accuracies, precisions, recalls, anova_calls, train_calls, model_name,
                   use_wandb, fold, foldvars, sinkvars, ret>>

\* lines 220-247: run-level averages, the run summary, the return
TrainReturn ==
    /\ tpc = "folds"
    /\ fold >= args.folds
    /\ LET avg_val_acc == RunAvgAcc(fold_results)
           avg_val_f1 == MeanRat(avg_val_f1_list)
           avg_val_recall == MeanRat(avg_val_recall_list)
           avg_val_precision == MeanRat(avg_val_precision_list)
           summary == [average_val_acc |-> avg_val_acc, average_val_f1 |-> avg_val_f1,
                       average_val_recall |-> avg_val_recall,
                       average_val_precision |-> avg_val_precision]
       IN /\ wandb' = IF use_wandb
                      THEN wandb \o <<[op |-> "log", kind |-> "summary", data |-> summary],
                                      [op |-> "finish", by |-> "train"]>>
                      ELSE wandb
          /\ writer' = IF use_wandb THEN writer ELSE Append(writer, [op |-> "close"])
          /\ ret' = [fold_results |-> fold_results, avg_val_acc |-> avg_val_acc,
                     avg_val_f1 |-> avg_val_f1, avg_val_recall |-> avg_val_recall,
                     avg_val_precision |-> avg_val_precision]
    /\ trace' = Append(trace, Event("run_summary", model_name, -1, -1))
    /\ tpc' = "idle"
    /\ mpc' = IF args.all THEN "collect" ELSE "single_ret"
    /\ UNCHANGED <<args, mi, results, accuracies, precisions, recalls, anova_calls, train_calls, model_name,
                   use_wandb, fold, aggvars, foldvars, saves>>

\* -------------------------------------------------------- main(): steps
ModelSet == {all_models[i] : i \in 1..Len(all_models)}

\* a list of per-fold lists that is not rectangular
Ragged(lists) == \E i, j \in 1..Len(lists) : Len(lists[i]) # Len(lists[j])

\* lines 335-345: a single model; train(args.model, ..., not args.no_wandb)
MainSingle ==
    /\ mpc = "start"
    /\ ~args.all
    /\ TrainPrologue(args.model, ~args.no_wandb, wandb)
    /\ mpc' = "train"
    /\ UNCHANGED <<args, mi, results, accuracies, precisions, recalls, anova_calls>>

\* lines 267-273: "train all"; the per-model dictionaries (f1_scores is
\* written and never read, and is left out)
MainAll ==
    /\ mpc = "start"
    /\ args.all
    /\ results' = <<>>
    /\ accuracies' = [m \in ModelSet |-> <<>>]
    /\ precisions' = [m \in ModelSet |-> <<>>]
    /\ recalls' = [m \in ModelSet |-> <<>>]
    /\ mi' = 1
    /\ mpc' = "models_loop"
    /\ UNCHANGED <<args, anova_calls, train_calls, trainvars, aggvars, foldvars, sinkvars, ret>>

\* lines 275-296: the next architecture; main's wandb.init, then train()
ModelLoop ==
    /\ mpc = "models_loop"
    /\ mi <= Len(all_models)
    /\ LET m == all_models[mi]
           w0 == IF ~args.no_wandb
                 THEN Append(wandb, [op |-> "init", name |-> m, by |-> "main"])
                 ELSE wandb
       IN TrainPrologue(m, ~args.no_wandb, w0)
    /\ mpc' = "train"
    /\ UNCHANGED <<args, mi, results, accuracies, precisions, recalls, anova_calls>>

\* lines 297-308: store what train() returned for the architecture
ModelCollect ==
    /\ mpc = "collect"
    /\ LET m == all_models[mi]
           fr == ret.fold_results
       IN /\ results' = [k \in DOMAIN results \cup {m} |->
                           IF k = m
                           THEN [avg_val_acc |-> ret.avg_val_acc, avg_val_f1 |-> ret.avg_val_f1,
                                 avg_val_recall |-> ret.avg_val_recall,
                                 avg_val_precision |-> ret.avg_val_precision]
                           ELSE results[k]]
          /\ accuracies' = [accuracies EXCEPT ![m] = [i \in 1..Len(fr) |-> fr[i].val_accs]]
          /\ precisions' = [precisions EXCEPT ![m] = [i \in 1..Len(fr) |-> fr[i].val_precisions]]
          /\ recalls' = [recalls EXCEPT ![m] = [i \in 1..Len(fr) |-> fr[i].val_recalls]]
    /\ mi' = mi + 1
    /\ mpc' = "models_loop"
    /\ UNCHANGED <<args, anova_calls, train_calls, trainvars, aggvars, foldvars, sinkvars, ret>>

\* lines 310-312 when some architecture's folds ran different numbers of
\* epochs: np.mean over the non-rectangular list raises, the process ends
SummaryRaggedError ==
    /\ mpc = "models_loop"
    /\ mi > Len(all_models)
    /\ \E m \in ModelSet : Ragged(precisions[m]) \/ Ragged(recalls[m])
    /\ mpc' = "crashed"
    /\ UNCHANGED <<args, mi, results, accuracies, precisions, recalls, anova_calls, train_calls,
                   trainvars, aggvars, foldvars, sinkvars, ret>>

\* lines 310-334: the summary, perform_anova(accuracies), the wandb logs
Anova ==
    /\ mpc = "models_loop"
    /\ mi > Len(all_models)
    /\ \A m \in ModelSet : ~Ragged(precisions[m]) /\ ~Ragged(recalls[m])
    /\ anova_calls' = Append(anova_calls, accuracies)
    /\ trace' = Append(trace, Event("perform_anova", "", -1, -1))
    /\ wandb' = IF ~args.no_wandb
                THEN wandb \o <<[op |-> "log", kind |-> "anova"]>>
                           \o [i \in 1..Len(all_models) |->
                                 [op |-> "log", kind |-> "model", name |-> all_models[i],
                                  data |-> results[all_models[i]]]]
                           \o <<[op |-> "finish", by |-> "main"]>>
                ELSE wandb
    /\ mpc' = "done"
    /\ UNCHANGED <<args, mi, results, accuracies, precisions, recalls, train_calls,
                   trainvars, aggvars, foldvars, saves, writer, ret>>

\* lines 314-320 with tracking enabled, where the wandb library rejects a
\* log call made while no run is open: perform_anova has returned, wandb.log
\* raises and the process ends.  (Whether the call is rejected or dropped is
\* the library's choice, e.g. by WANDB_MODE; Anova is the other outcome.)
AnovaLogError ==
    /\ mpc = "models_loop"
    /\ mi > Len(all_models)
    /\ \A m \in ModelSet : ~Ragged(precisions[m]) /\ ~Ragged(recalls[m])
    /\ ~args.no_wandb
    /\ anova_calls' = Append(anova_calls, accuracies)
    /\ trace' = Append(trace, Event("perform_anova", "", -1, -1))
    /\ wandb' = Append(wandb, [op |-> "log", kind |-> "anova"])
    /\ mpc' = "crashed"
    /\ UNCHANGED <<args, mi, results, accuracies, precisions, recalls, train_calls,
                   trainvars, aggvars, foldvars, saves, writer, ret>>

\* lines 346-349: print the averages train() returned
SingleDone ==
    /\ mpc = "single_ret"
    /\ mpc' = "done"
    /\ UNCHANGED <<args, mi, results, accuracies, precisions, recalls, anova_calls, train_calls,
                   trainvars, aggvars, foldvars, sinkvars, ret>>

Next ==
    \/ MainSingle
    \/ MainAll
    \/ ModelLoop
    \/ FoldStart
    \/ EpochStep
    \/ EpochBreak
    \/ EpochsExhausted
    \/ FoldEnd
    \/ FoldEndNameError
    \/ TrainReturn
    \/ ModelCollect
    \/ SummaryRaggedError
    \/ Anova
    \/ AnovaLogError
    \/ SingleDone

Spec == Init /\ [][Next]_vars

\* ================================================================ claims
\* The largest value of a list of accuracies; 0, the initial best, if empty.
MaxOf(s) == CHOOSE m \in {0} \cup {s[i] : i \in 1..Len(s)} : \A i \in 1..Len(s) : m >= s[i]

\* 1-based number of the last epoch that beat every earlier epoch; 0 if none.
LastImprovement(accs) ==
    LET imp == {i \in 1..Len(accs) : accs[i] > MaxOf(SubSeq(accs, 1, i - 1))}
    IN IF imp = {} THEN 0 ELSE CHOOSE i \in imp : \A j \in imp : i >= j

InFold == tpc \in {"epochs", "fold_end"}

\* a transition that evaluates one epoch of the current fold
EpochEvaluated == tpc = "epochs" /\ tpc' = "epochs" /\ Len(hist'.val_accs) = Len(hist.val_accs) + 1

MinInt(a, b) == IF a <= b THEN a ELSE b

\* the number of epochs range(epochs) yields
EpochBudget == IF args.epochs > 0 THEN args.epochs ELSE 0

\* The length of a finished fold's history, for a patience >= 1: the fold
\* stopped at (last improvement + patience) or used up the budget.
FinishedLengthOk(accs, p, budget) ==
    LET n == Len(accs)
        li == LastImprovement(accs)
    IN /\ n <= budget
       /\ IF n - li >= p THEN n = li + p ELSE n = budget

\* C1 (amended): for a patience >= 1 early stopping is triggered iff the
\* no-improvement counter has reached the patience at the end of an evaluated
\* epoch; once triggered no further epoch of the fold is evaluated, and the
\* history length is (1-based epoch of the last improvement + patience), within
\* the epoch budget; a fold that did not stop runs the whole budget.  For a
\* patience <= 0 the fold stops after its first epoch.  With epochs=5,
\* patience=2 and accuracies 70, 72, 72, 71 the fold has stopped and no fifth
\* epoch is ever recorded.
C1_EarlyStopping ==
    /\ InFold =>
         LET accs == hist.val_accs
             n == Len(accs)
             li == LastImprovement(accs)
             p == args.patience
         IN /\ early_stop <=> (n >= 1 /\ epochs_no_improve >= p)
            /\ (early_stop /\ p >= 1) => (n = li + p /\ n <= args.epochs)
            /\ (early_stop /\ p <= 0) => n = 1
            /\ (~early_stop /\ p >= 1) => n < li + p
            /\ (~early_stop /\ tpc = "fold_end") => n = EpochBudget
            /\ (args.epochs = 5 /\ p = 2 /\ accs = <<70, 72, 72, 71>>) => early_stop
            /\ (args.epochs = 5 /\ p = 2 /\ n = 5) => SubSeq(accs, 1, 4) # <<70, 72, 72, 71>>
    /\ \A i \in 1..Len(fold_results) :
         LET accs == fold_results[i].val_accs
         IN /\ args.patience >= 1 => FinishedLengthOk(accs, args.patience, EpochBudget)
            /\ args.patience <= 0 => Len(accs) = MinInt(1, EpochBudget)
            /\ (args.epochs = 5 /\ args.patience = 2 /\ Len(accs) = 5)
                   => SubSeq(accs, 1, 4) # <<70, 72, 72, 71>>

\* C1 witness: the scenario's fold has ended after epoch 4 of 5, stopped early
C1_Witness ==
    /\ args.epochs = 5
    /\ args.patience = 2
    /\ Len(fold_results) = 1
    /\ fold_results[1].val_accs = <<70, 72, 72, 71>>
    /\ early_stop

\* C1 as stated, for every patience the command line accepts: a stopped fold's
\* history length is (epoch of the last improvement + patience), capped by
\* the epoch budget
C1_Original ==
    InFold =>
        LET accs == hist.val_accs
            n == Len(accs)
            li == LastImprovement(accs)
            p == args.patience
        IN /\ early_stop <=> (n >= 1 /\ epochs_no_improve >= p)
           /\ early_stop => n = MinInt(li + p, EpochBudget)

\* C2: an evaluated epoch sets the no-improvement counter to 0 if its accuracy
\* is strictly greater than the best accuracy of the fold's earlier epochs
\* (0 if none), and adds exactly 1 to it otherwise, a tie included.
C2_Counter ==
    [][EpochEvaluated =>
         LET va == hist'.val_accs[Len(hist'.val_accs)]
         IN IF va > MaxOf(hist.val_accs)
            THEN epochs_no_improve' = 0
            ELSE epochs_no_improve' = epochs_no_improve + 1]_vars

\* C2 witness: two ties after an improvement, counted as two epochs without
\* improvement
C2_Witness ==
    /\ tpc = "epochs"
    /\ Len(hist.val_accs) = 3
    /\ hist.val_accs[1] = 72
    /\ hist.val_accs[2] = 72
    /\ hist.val_accs[3] = 72
    /\ epochs_no_improve = 2

\* C3: an evaluated epoch writes a "best" checkpoint iff its accuracy is
\* strictly greater than the best accuracy of the fold's earlier epochs (0 if
\* none); the write goes to the fold's one "best" path, so it replaces the
\* fold's previous "best" checkpoint.
C3_BestCheckpoint ==
    [][EpochEvaluated =>
         LET n == Len(hist'.val_accs)
             va == hist'.val_accs[n]
         IN IF va > MaxOf(hist.val_accs)
            THEN saves' = Append(saves, [path |-> <<model_name, fold + 1, "best">>,
                                         epoch |-> n - 1, val_acc |-> va])
            ELSE saves' = saves]_vars

\* C3 witness: the fold's "best" path has been written twice, and a later
\* tie has not written it again
C3_Witness ==
    /\ tpc = "epochs"
    /\ hist.val_accs = <<70, 72, 72>>
    /\ Len(saves) = 2
    /\ saves[1].path = saves[2].path
    /\ saves[2].val_acc = 72

\* the number of "final" checkpoint writes for fold f (0-based) of a run
FinalWrites(name, f) ==
    Cardinality({i \in 1..Len(saves) : saves[i].path = <<name, f + 1, "final">>})

\* C4 as stated: a fold that has ended, by exhausting the epoch budget or by
\* early stopping, has exactly one "final" checkpoint write, made before the
\* next fold begins; a fold that has not ended has none.
C4_OneFinalPerFold ==
    tpc \in {"folds", "epochs", "fold_end", "crashed"} =>
        \A f \in 0..(args.folds - 1) :
            LET ended == f < fold \/ (f = fold /\ tpc = "crashed")
            IN FinalWrites(model_name, f) = IF ended THEN 1 ELSE 0

\* C5 as stated: a fold's "final" checkpoint records the index of the last
\* epoch that was trained and validated in the fold (0-based, as the loop
\* variable that the "best" checkpoint records) and that epoch's accuracy.
C5_FinalRecordsLastEpoch ==
    \A i \in 1..Len(saves) :
        LET path == saves[i].path
        IN (path[3] = "final" /\ path[1] = model_name /\ path[2] <= Len(fold_results)) =>
               LET accs == fold_results[path[2]].val_accs
               IN /\ saves[i].epoch = Len(accs) - 1
                  /\ saves[i].val_acc = accs[Len(accs)]

Returned == ret.fold_results # <<>>

RECURSIVE ProdLen(_)
ProdLen(lists) == IF lists = <<>> THEN 1 ELSE Len(Head(lists)) * ProdLen(Tail(lists))

\* avg is the unweighted mean over the lists of each list's own mean:
\* avg * K = sum_i (sum(list_i) / len(list_i)), cleared of denominators
IsMeanOfMeans(avg, lists) ==
    LET K == Len(lists)
        P == ProdLen(lists)
    IN /\ avg[2] > 0
       /\ avg[1] * K * P = avg[2] * SumSeq([i \in 1..K |-> SumSeq(lists[i]) * (P \div Len(lists[i]))])

\* avg is the mean over all entries of all lists, each entry weighing the same
IsPooledMean(avg, lists) ==
    LET K == Len(lists)
    IN avg[1] * SumSeq([i \in 1..K |-> Len(lists[i])]) = avg[2] * SumSeq([i \in 1..K |-> SumSeq(lists[i])])

\* C6: what train() returns: the average accuracy is the unweighted mean over
\* the folds of the largest accuracy in each fold's history; the average F1,
\* recall and precision are the unweighted means over the folds of each
\* fold's mean over all the epochs of its history.
C6_RunAverages ==
    Returned =>
        LET fr == ret.fold_results
            K == Len(fr)
        IN /\ ret.avg_val_acc[2] > 0
           /\ ret.avg_val_acc[1] * K = ret.avg_val_acc[2] * SumSeq([i \in 1..K |-> MaxOf(fr[i].val_accs)])
           /\ IsMeanOfMeans(ret.avg_val_f1, [i \in 1..K |-> fr[i].val_f1s])
           /\ IsMeanOfMeans(ret.avg_val_recall, [i \in 1..K |-> fr[i].val_recalls])
           /\ IsMeanOfMeans(ret.avg_val_precision, [i \in 1..K |-> fr[i].val_precisions])

\* C6 witness: folds of different history lengths returned, where the mean of
\* the folds' means differs from the mean over all epochs, and a fold whose
\* last epoch was not its best
C6_Witness ==
    /\ Returned
    /\ Len(ret.fold_results) >= 2
    /\ Len(ret.fold_results[1].val_f1s) # Len(ret.fold_results[2].val_f1s)
    /\ ~IsPooledMean(ret.avg_val_f1, [i \in 1..Len(ret.fold_results) |-> ret.fold_results[i].val_f1s])
    /\ \E i \in 1..Len(ret.fold_results) :
         LET accs == ret.fold_results[i].val_accs
         IN accs[Len(accs)] < MaxOf(accs)

\* the metrics records the active backend has received: kind of each, in order
SinkLog == IF use_wandb THEN wandb ELSE writer

RecordCount(kind) ==
    Cardinality({i \in 1..Len(SinkLog) :
        /\ SinkLog[i].op \in {"log", "scalars"}
        /\ SinkLog[i].kind = kind})

EvaluatedEpochs ==
    SumSeq([i \in 1..Len(fold_results) |-> Len(fold_results[i].val_accs)])
        + (IF InFold THEN Len(hist.val_accs) ELSE 0)

\* C7 as stated, for a single-model run: in either telemetry mode the active
\* backend has received one per-epoch record for each epoch evaluated so
\* far, and one run-summary record once train() has returned.
C7_TelemetryRecords ==
    ~args.all =>
        /\ RecordCount("epoch") = EvaluatedEpochs
        /\ RecordCount("summary") = IF mpc \in {"single_ret", "done"} THEN 1 ELSE 0

C9_TrainAllThenAnova ==
    args.all =>
        /\ Len(train_calls) <= Len(all_models)
        /\ \A i \in 1..Len(train_calls) : train_calls[i] = all_models[i]
        /\ Len(anova_calls) <= 1
        /\ anova_calls # <<>> =>
             /\ train_calls = all_models
             /\ tpc = "idle"
             /\ DOMAIN anova_calls[1] = ModelSet
             /\ \A m \in ModelSet : Len(anova_calls[1][m]) = args.folds
        /\ mpc \in {"done", "crashed"} => Len(anova_calls) = 1

\* the smallest of a non-empty list of losses
MinOf(s) == CHOOSE m \in {s[i] : i \in 1..Len(s)} : \A i \in 1..Len(s) : m <= s[i]

\* the loss of epoch k (1-based) did not improve on the fold's earlier losses
LossNotImproved(losses, k) == k >= 2 /\ losses[k] >= MinOf(SubSeq(losses, 1, k - 1))

\* the number of consecutive epochs, up to the last one, without improvement
\* of the loss
TrailingBad(losses) ==
    LET n == Len(losses)
        runs == {r \in 0..n : \A k \in (n - r + 1)..n : LossNotImproved(losses, k)}
    IN CHOOSE r \in runs : \A q \in runs : r >= q

NewSteps(old, new) == [i \in 1..(Len(new) - Len(old)) |-> new[Len(old) + i].ev]

\* the number of steps ev recorded for fold index f of architecture m
StepCount(ev, m, f) ==
    Cardinality({i \in 1..Len(trace) :
        trace[i].ev = ev /\ trace[i].model = m /\ trace[i].fold = f})

IsEpochRecord(x) == x.op \in {"log", "scalars"} /\ x.kind = "epoch"

\* the last per-epoch record the active backend received
LastEpochRecord(log) ==
    LET idx == {i \in 1..Len(log) : IsEpochRecord(log[i])}
    IN log[CHOOSE i \in idx : \A j \in idx : i >= j]

HistLengths ==
    {Len(hist.train_losses), Len(hist.val_losses), Len(hist.train_accs), Len(hist.val_accs),
     Len(hist.val_f1s), Len(hist.val_precisions), Len(hist.val_recalls)}

\* C11: every evaluated epoch performs its steps in the order train one
\* epoch, validate, scheduler step on the validation loss, one append to each
\* history list, the epoch's telemetry (carrying the learning rate as it is
\* after the scheduler step), the "best" checkpoint iff the accuracy improved,
\* the early-stop evaluation on the updated counter; and within a fold all
\* seven history lists have one length, the number of epochs evaluated so far.
C11_EpochOrder ==
    /\ [](InFold => HistLengths = {StepCount("validate", model_name, fold)})
    /\ [][EpochEvaluated =>
            LET improved == val_acc'[1] > best_val_acc
                rec == LastEpochRecord(SinkLog')
            IN /\ SubSeq(trace', 1, Len(trace)) = trace
               /\ NewSteps(trace, trace') =
                     IF improved
                     THEN <<"train_one_epoch", "validate", "scheduler_step", "history_append",
                            "log_metrics", "save_best", "early_stop_check">>
                     ELSE <<"train_one_epoch", "validate", "scheduler_step", "history_append",
                            "log_metrics", "early_stop_check">>
               /\ \A i \in (Len(trace) + 1)..Len(trace') :
                     /\ trace'[i].model = model_name
                     /\ trace'[i].fold = fold
                     /\ trace'[i].epoch = Len(hist.val_accs)
               /\ scheduler'.best[1] <= hist'.val_losses[Len(hist'.val_losses)]
               /\ Len(hist'.train_losses) = Len(hist.train_losses) + 1
               /\ Len(hist'.val_losses) = Len(hist.val_losses) + 1
               /\ Len(hist'.train_accs) = Len(hist.train_accs) + 1
               /\ Len(hist'.val_f1s) = Len(hist.val_f1s) + 1
               /\ Len(hist'.val_precisions) = Len(hist.val_precisions) + 1
               /\ Len(hist'.val_recalls) = Len(hist.val_recalls) + 1
               /\ Len(SinkLog') >= Len(SinkLog) + 1
               /\ IsEpochRecord(SinkLog'[Len(SinkLog) + 1])
               /\ rec.data.lr = lr'
               /\ rec.data.epoch = Len(hist.val_accs)
               /\ rec.data.val_loss = hist'.val_losses[Len(hist'.val_losses)]
               /\ Len(saves') = Len(saves) + (IF improved THEN 1 ELSE 0)
               /\ (use_wandb /\ improved) =>
                     /\ Len(wandb') = Len(wandb) + 2
                     /\ wandb'[Len(wandb')].op = "save"
               /\ early_stop' = (early_stop \/ epochs_no_improve' >= args.patience)]_vars

\* C11 witness: the fifth epoch of a fold has just halved the learning rate,
\* its telemetry record carries the halved rate, and an earlier epoch of the
\* fold wrote a "best" checkpoint
C11_Witness ==
    /\ tpc = "epochs"
    /\ Len(hist.val_accs) = 5
    /\ HistLengths = {5}
    /\ lr * 2 = InitialLr
    /\ LastEpochRecord(SinkLog).data.lr * 2 = InitialLr
    /\ LastEpochRecord(SinkLog).data.epoch = 4
    /\ StepCount("save_best", model_name, fold) >= 1
    /\ trace[Len(trace)].ev = "early_stop_check"

\* position of an architecture in all_models
ModelIndex(m) == CHOOSE k \in 1..Len(all_models) : all_models[k] = m

\* the number of steps ev recorded for architecture m, over all its folds
ModelStepCount(ev, m) ==
    Cardinality({i \in 1..Len(trace) : trace[i].ev = ev /\ trace[i].model = m})

Terminated == mpc \in {"done", "crashed"}

\* some step of the program can be taken: the guard of one of its steps holds
CanStep ==
    \/ mpc = "start"
    \/ mpc = "models_loop" /\ mi <= Len(all_models)
    \/ mpc = "models_loop" /\ mi > Len(all_models)
          /\ \E m \in ModelSet : Ragged(precisions[m]) \/ Ragged(recalls[m])
    \/ mpc = "models_loop" /\ mi > Len(all_models)
          /\ \A m \in ModelSet : ~Ragged(precisions[m]) /\ ~Ragged(recalls[m])
    \/ mpc = "collect"
    \/ mpc = "single_ret"
    \/ tpc = "folds" /\ fold < args.folds
    \/ tpc = "folds" /\ fold >= args.folds
    \/ tpc = "epochs" /\ RangeHasNext(range_pos, args.epochs) /\ ~early_stop
          /\ args.env.trn # {} /\ args.env.losses # {} /\ args.env.prf # {}
          /\ ValAccs(args.env, model_name) # {}
    \/ tpc = "epochs" /\ RangeHasNext(range_pos, args.epochs) /\ early_stop
    \/ tpc = "epochs" /\ ~RangeHasNext(range_pos, args.epochs)
    \/ tpc = "fold_end" /\ epoch # <<>> /\ val_acc # <<>>
    \/ tpc = "fold_end" /\ (epoch = <<>> \/ val_acc = <<>>)

\* an upper bound of the number of steps one fold takes: its start, one step
\* per epoch of the budget, the end of the loop, the fold's end
FoldWork == EpochBudget + 3

\* an upper bound of the number of steps one train() call takes
TrainWork == args.folds * FoldWork + 1

\* an upper bound of the number of steps train() has left
TrainLeft ==
    CASE tpc = "folds" -> (args.folds - fold) * FoldWork + 1
      [] tpc = "epochs" -> (args.folds - fold - 1) * FoldWork + (EpochBudget - range_pos) + 3
      [] tpc = "fold_end" -> (args.folds - fold - 1) * FoldWork + 2
      [] OTHER -> 0

\* an upper bound of the number of steps the run has left
StepsLeft ==
    CASE mpc = "start" -> Len(all_models) * (TrainWork + 2) + 2
      [] mpc = "models_loop" -> (Len(all_models) + 1 - mi) * (TrainWork + 2) + 1
      [] mpc = "train" /\ args.all -> (Len(all_models) - mi) * (TrainWork + 2) + 2 + TrainLeft
      [] mpc = "train" /\ ~args.all -> TrainLeft + 1
      [] mpc = "collect" -> (Len(all_models) - mi) * (TrainWork + 2) + 2
      [] mpc = "single_ret" -> 1
      [] OTHER -> 0

\* C12: folds and architectures are processed strictly one after the other.
\* Whenever an epoch of fold i+1 starts, fold i's "final" checkpoint has been
\* written; whenever a fold of an architecture starts in a "train all" run,
\* the run summary of the architecture before it has been produced; no
\* architecture evaluates more than k*E epochs, k the number of folds and E the
\* number of epochs the budget yields; and every run terminates: a run that
\* has not ended can take a step, and every step lowers StepsLeft, a bound
\* that is never negative.
C12_Sequential ==
    /\ [][\A j \in (Len(trace) + 1)..Len(trace') :
            LET s == trace'[j]
            IN /\ (s.ev = "train_one_epoch" /\ s.fold >= 1) =>
                     \E i \in 1..(j - 1) :
                        /\ trace'[i].ev = "save_final"
                        /\ trace'[i].model = s.model
                        /\ trace'[i].fold = s.fold - 1
               /\ (s.ev = "fold_begin" /\ args.all /\ ModelIndex(s.model) >= 2) =>
                     \E i \in 1..(j - 1) :
                        trace'[i] = Event("run_summary", all_models[ModelIndex(s.model) - 1], -1, -1)
               /\ (s.fold >= 0 /\ j >= 2 /\ trace'[j - 1].fold >= 0
                        /\ trace'[j - 1].model = s.model) =>
                     trace'[j - 1].fold <= s.fold]_vars
    /\ [](\A m \in ModelSet : ModelStepCount("validate", m) <= args.folds * EpochBudget)
    /\ [](StepsLeft >= 0 /\ (~Terminated => CanStep))
    /\ [][StepsLeft' < StepsLeft]_vars

\* C12 witness: a "train all" run over 2 folds with a budget of 2 epochs has
\* ended and every architecture evaluated exactly 2 * 2 epochs
C12_Witness ==
    /\ mpc = "done"
    /\ args.all
    /\ args.folds = 2
    /\ args.epochs = 2
    /\ \A m \in ModelSet : ModelStepCount("validate", m) = 4
    /\ StepCount("save_final", all_models[1], 1) = 1

\* a tracking run is open when call number i is made: the last wandb.init or
\* wandb.finish before it is an init
RunOpenBefore(i) ==
    LET life == {j \in 1..(i - 1) : wandb[j].op \in {"init", "finish"}}
    IN life # {} /\ wandb[CHOOSE j \in life : \A k \in life : j >= k].op = "init"

\* C13 as stated: every wandb.log call is made while a run is open, so no
\* per-epoch record, run summary, ANOVA result or per-model summary is logged
\* after its run was finished; no wandb.init is made while a run is open;
\* every wandb.finish closes an open run, so no run is closed twice; and when
\* the program has ended normally no run is left open.
C13_WandbLifecycle ==
    /\ \A i \in 1..Len(wandb) :
          /\ wandb[i].op = "log" => RunOpenBefore(i)
          /\ wandb[i].op = "init" => ~RunOpenBefore(i)
          /\ wandb[i].op = "finish" => RunOpenBefore(i)
    /\ mpc = "done" => ~RunOpenBefore(Len(wandb) + 1)

\* positions in saves of the "best" checkpoint writes of fold number f
BestWrites(f) == {j \in 1..Len(saves) : saves[j].path = <<model_name, f, "best">>}

\* what the "best" checkpoint file of fold number f holds: its last write
BestFile(f) == saves[CHOOSE j \in BestWrites(f) : \A k \in BestWrites(f) : j >= k]

\* 0-based index of the earliest epoch whose accuracy is the largest
EarliestMax(accs) ==
    (CHOOSE i \in 1..Len(accs) :
        accs[i] = MaxOf(accs) /\ \A k \in 1..(i - 1) : accs[k] < MaxOf(accs)) - 1

\* C14: for every fold that has ended, if some epoch of it had a validation
\* accuracy above 0 then the fold's "best" checkpoint file holds the accuracy
\* that the fold result reports as best_val_acc, that accuracy is the largest
\* of the fold's validation-accuracy history, and the file holds the index of
\* the earliest epoch that reached it; if no epoch had an accuracy above 0
\* then best_val_acc is 0 and the fold has no "best" checkpoint.
C14_BestCheckpointFile ==
    \A f \in 1..Len(fold_results) :
        LET accs == fold_results[f].val_accs
        IN IF MaxOf(accs) > 0
           THEN /\ BestWrites(f) # {}
                /\ BestFile(f).val_acc = fold_results[f].best_val_acc
                /\ fold_results[f].best_val_acc = MaxOf(accs)
                /\ BestFile(f).epoch = EarliestMax(accs)
           ELSE /\ BestWrites(f) = {}
                /\ fold_results[f].best_val_acc = 0

\* C14 witness: a fold ended whose largest accuracy was reached by its second
\* epoch and again by its third; the file holds the second epoch (index 1)
C14_Witness ==
    /\ Len(fold_results) = 1
    /\ fold_results[1].val_accs = <<70, 72, 72>>
    /\ Cardinality(BestWrites(1)) = 2
    /\ BestFile(1).epoch = 1
    /\ BestFile(1).val_acc = 72

\* the learning rates a fresh optimizer and scheduler have after each of the
\* given validation losses
RECURSIVE LrTrace(_, _, _)
LrTrace(losses, s, rate) ==
    IF losses = <<>> THEN <<>>
    ELSE LET st == SchedulerStep(s, rate, Head(losses))
         IN <<st.lr>> \o LrTrace(Tail(losses), st.scheduler, st.lr)

\* position in the active backend's log at which the current train() call
\* opened it
RunStart ==
    LET opens == {i \in 1..Len(SinkLog) : SinkLog[i].op \in {"init", "open"}}
    IN CHOOSE i \in opens : \A j \in opens : i >= j

\* the number of epochs of a history that beat every earlier epoch
Improvements(accs) ==
    Cardinality({i \in 1..Len(accs) : accs[i] > MaxOf(SubSeq(accs, 1, i - 1))})

\* a fold begins
FoldBegins == tpc = "folds" /\ tpc' = "epochs"

\* C15: a fold begins with the learning rate at its configured initial value,
\* a scheduler without history, best accuracy 0, no-improvement counter 0,
\* stopped flag false, empty histories and the first epoch index; and what a
\* fold that has ended produced is what a first fold produces from the same
\* validation outcomes: its best accuracy, the length of its history, the
\* learning rates in its telemetry, the number of its "best" checkpoint writes
\* and the content of its "final" checkpoint are determined by the fold's own
\* histories and the run's configuration.
C15_FreshFold ==
    /\ [][FoldBegins =>
            /\ lr' = InitialLr
            /\ scheduler' = [best |-> <<>>, num_bad_epochs |-> 0]
            /\ best_val_acc' = 0
            /\ epochs_no_improve' = 0
            /\ early_stop' = FALSE
            /\ hist' = EmptyHist
            /\ range_pos' = 0
            /\ trace'[Len(trace')] = Event("fold_begin", model_name, fold, -1)]_vars
    /\ [](\A f \in 1..Len(fold_results) :
            LET own == fold_results[f]
                accs == own.val_accs
                n == Len(accs)
                rates == LrTrace(own.val_losses, [best |-> <<>>, num_bad_epochs |-> 0], InitialLr)
                finals == {j \in 1..Len(saves) : saves[j].path = <<model_name, f, "final">>}
            IN /\ own.best_val_acc = MaxOf(accs)
               /\ args.patience >= 1 => FinishedLengthOk(accs, args.patience, EpochBudget)
               /\ args.patience <= 0 => n = MinInt(1, EpochBudget)
               /\ Cardinality(BestWrites(f)) = Improvements(accs)
               /\ \A j \in finals :
                     /\ saves[j].val_acc = accs[n]
                     /\ saves[j].epoch = IF n < EpochBudget THEN n ELSE n - 1
               /\ \A i \in (RunStart + 1)..Len(SinkLog) :
                     (IsEpochRecord(SinkLog[i]) /\ SinkLog[i].data.fold = f - 1) =>
                        SinkLog[i].data.lr = rates[SinkLog[i].data.epoch + 1])

\* C15 witness: the first fold ended with a halved learning rate, the stopped
\* flag set and a best accuracy of 70; the second fold has evaluated one epoch
\* at the initial learning rate, found it an improvement and goes on
C15_Witness ==
    /\ tpc = "epochs"
    /\ fold = 1
    /\ Len(fold_results) = 1
    /\ fold_results[1].best_val_acc = 70
    /\ Len(fold_results[1].val_accs) = args.patience + 1
    /\ \E i \in 1..Len(SinkLog) :
          IsEpochRecord(SinkLog[i]) /\ SinkLog[i].data.fold = 0 /\ SinkLog[i].data.lr * 2 = InitialLr
    /\ Len(hist.val_accs) = 1
    /\ lr = InitialLr
    /\ LastEpochRecord(SinkLog).data.lr = InitialLr
    /\ best_val_acc = 70
    /\ epochs_no_improve = 0
    /\ ~early_stop
    /\ Cardinality(BestWrites(2)) = 1

====
